---- MODULE Spec2Model ----
(***************************************************************************)
(* A model of the Baby RAG system: the core BabyRAGSystem (rag_system.py), *)
(* the FastAPI server (rag_api.py), the MCP server (rag_mcp_server.py) and *)
(* a script that drives the core directly (harness.py).                    *)
(*                                                                         *)
(* One behaviour is one operating-system process.  The Chroma client made  *)
(* by chromadb.Client() is in memory, so the collection store starts       *)
(* empty in a process (Spec); SpecExisting is a process that finds the     *)
(* collection in its store, SpecObserved one whose caller compares answers.*)
(*                                                                         *)
(* Handlers of both servers are coroutines on a single event loop and      *)
(* contain no await: a handler that has started runs to its end before     *)
(* another one starts; requests that arrive meanwhile wait (pending).  The *)
(* constructor is modelled step by step (pc).                              *)
(*                                                                         *)
(* Scores and distances are exact decimals in units of 10^-(RoundDigits+1).*)
(***************************************************************************)
EXTENDS Integers, Sequences, FiniteSets, TLC

VARIABLES
    transport,      \* which program this process runs: "http", "mcp", "script"
    phase,          \* life cycle of the program
    data_file,      \* data/snippets.json on disk
    collection,     \* the in-memory Chroma collection named collection_name
    pc,             \* position inside BabyRAGSystem.__init__ ("idle": not running)
    self,           \* the instance under construction
    cur,            \* the rag_query request whose _ensure_rag is constructing
    rag_system,     \* rag_api.py: module global
    _rag_instance,  \* rag_mcp_server.py: attribute of the FastMCP server
    rag,            \* harness.py: local variable of the script
    pending,        \* requests received and not yet started by the event loop
    resp,           \* outcome of the last finished request or call (none while
                    \* a rag_query is constructing)
    op,             \* name of the last step taken
    memo,           \* the answer a caller that compares answers has kept
    index_runs      \* the calls of _add_snippets_to_collection so far, in
                    \* order: "added" when the call returned, "raised" when the
                    \* embedding failed, "rejected" when Chroma refused the batch

vars == <<transport, phase, data_file, collection, pc, self, cur, rag_system,
          _rag_instance, rag, pending, resp, op, memo, index_runs>>

(***************************************************************************)
(* Bounds of the model.                                                    *)
(***************************************************************************)
MaxDocs == 2            \* snippets in a data file
MaxPending == 1         \* requests waiting for the event loop
MaxIndexRuns == 2       \* calls of _add_snippets_to_collection in one process
MaxExisting == 1        \* documents of a collection older than the process

(***************************************************************************)
(* Program constants.                                                      *)
(***************************************************************************)
RoundDigits == 4        \* round(..., 4) in the /query endpoint
MinResults == 1         \* n_results lower limit of both transports
MaxResults == 10        \* n_results upper limit of both transports

One == 10 ^ (RoundDigits + 1)       \* 1.0 in units of 10^-(RoundDigits+1)

Min(a, b) == IF a <= b THEN a ELSE b

(***************************************************************************)
(* Inputs.                                                                 *)
(***************************************************************************)
\* Questions, as sequences of characters: empty, blank, one word, a word
\* between blanks, two words.
Questions ==
    { <<>>, <<" ">>, <<"m">>, <<"d">>, <<" ", "m", " ">>, <<"m", "d">> }

NResults == (0..MaxDocs) \cup {MaxResults, MaxResults + 1}

Snippet(i, t, c) == [id |-> i, title |-> t, content |-> c]

\* The snippets a data file is made of.  Two of them share title and content
\* (equal embeddings); a file may hold a snippet twice (a repeated id).
SnippetPool ==
    { Snippet(1, "ML", "learn"), Snippet(2, "DB", "store"),
      Snippet(3, "DB", "store") }

Corpora == UNION {[1..n -> SnippetPool] : n \in 0..MaxDocs}

DataFiles ==
    {[status |-> "missing", snippets |-> <<>>],
     [status |-> "invalid", snippets |-> <<>>]}
    \cup {[status |-> "ok", snippets |-> c] : c \in Corpora}

(***************************************************************************)
(* Python built-ins.                                                       *)
(***************************************************************************)
Digits == <<"0", "1", "2", "3", "4", "5", "6", "7", "8", "9">>

RECURSIVE str(_)
str(i) == IF i < 10 THEN Digits[i + 1]
          ELSE str(i \div 10) \o Digits[(i % 10) + 1]

RECURSIVE lstrip(_)
lstrip(s) == IF s # <<>> /\ Head(s) = " " THEN lstrip(Tail(s)) ELSE s

RECURSIVE rstrip(_)
rstrip(s) == IF s # <<>> /\ s[Len(s)] = " "
             THEN rstrip(SubSeq(s, 1, Len(s) - 1)) ELSE s

strip(s) == rstrip(lstrip(s))

\* round(x, ndigits) on a value in units of 10^-(RoundDigits+1): to the nearest
\* multiple of 10^-ndigits, a tie going to the even neighbour.
\* Variant of round for the sensitivity of C8: a tie goes up.
round_half_up(x, ndigits) ==
    LET u == 10 ^ (RoundDigits + 1 - ndigits)
    IN  u * ((2 * x + u) \div (2 * u))

round(x, ndigits) ==
    LET u == 10 ^ (RoundDigits + 1 - ndigits)
        q == x \div u
        r == x % u
    IN  IF 2 * r < u THEN u * q
        ELSE IF 2 * r > u THEN u * (q + 1)
        ELSE IF q % 2 = 0 THEN u * q ELSE u * (q + 1)

(***************************************************************************)
(* Chroma: the collection and the two calls the core makes on it.          *)
(***************************************************************************)
\* order: the order in which the index of the collection yields its entries
\* when their distances to a query are equal (entry order[1] first).  Chroma
\* states no such order; it is a property of the index as it was built.
NoCollection ==
    [exists |-> FALSE, ids |-> <<>>, documents |-> <<>>, metadatas |-> <<>>,
     order |-> <<>>]

count(coll) == Len(coll.ids)

Orderings(n) == {p \in [1..n -> 1..n] : \A i, j \in 1..n : i # j => p[i] # p[j]}

HasDuplicates(seq) == \E i, j \in 1..Len(seq) : i < j /\ seq[i] = seq[j]

\* collection.add(documents, metadatas, ids): one call for the whole batch.
\* Chroma first validates the batch (non-empty, no duplicate id), then embeds
\* the documents, then stores; when one of the first two fails it raises and
\* the collection is as before.  embedded: whether the embedding was started.
\* order: the order among equal distances the index gets for the new entries.
add(coll, documents, metadatas, ids, embed_ok, order) ==
    IF ids = <<>> \/ HasDuplicates(ids)
    THEN [raised |-> TRUE, embedded |-> FALSE, collection |-> coll]
    ELSE IF ~embed_ok
    THEN [raised |-> TRUE, embedded |-> TRUE, collection |-> coll]
    ELSE [raised |-> FALSE, embedded |-> TRUE,
          collection |-> [exists |-> TRUE,
                          ids |-> coll.ids \o ids,
                          documents |-> coll.documents \o documents,
                          metadatas |-> coll.metadatas \o metadatas,
                          order |-> coll.order
                                    \o [i \in 1..Len(ids) |-> count(coll) + order[i]]]]

Occurrences(s, c) == Cardinality({i \in 1..Len(s) : s[i] = c})

\* The distance Chroma computes between the embeddings of a query text and of a
\* stored document.  The encoder is frozen: the distance is a fixed function of
\* the two texts (white space carries no token).  Equal documents are at equal
\* distance; the default space is squared L2, so a distance may exceed 1.
embedding_distance(query_text, document) ==
    LET topic == IF document = "ML: learn" THEN "m" ELSE "d"
        other == IF topic = "m" THEN "d" ELSE "m"
        off == CASE document = "ML: learn" -> 0
                 [] document = "DB: store" -> 2340
                 [] OTHER -> One \div 2
    IN  One - 49995 * Min(Occurrences(query_text, topic), 2)
            + 10000 * Min(Occurrences(query_text, other), 2) + off

\* The orders an index of these documents may have among equal distances.
\* Only equal documents are at equal distance from every query text, so an
\* order is given as a permutation that moves entries among their equals.
TieOrders(documents) ==
    {o \in Orderings(Len(documents)) :
        \A i \in 1..Len(documents) : documents[o[i]] = documents[i]}

\* The place of entry i in the order of the index among equal distances.
Place(coll, i) == CHOOSE r \in 1..Len(coll.order) : coll.order[r] = i

\* Variant of Rankings for the sensitivity of C11: the order among equal
\* distances is settled anew by every search.
Rankings_per_search(coll, query_text) ==
    {p \in Orderings(count(coll)) :
        \A i, j \in 1..count(coll) :
            i < j => embedding_distance(query_text, coll.documents[p[i]])
                     <= embedding_distance(query_text, coll.documents[p[j]])}

\* The ranking Chroma gives the stored documents for a query text: ascending
\* distance, equal distances in the order of the index.  The search reads
\* the index and nothing else, so it ranks the same way every time.
Rankings(coll, query_text) ==
    {p \in Orderings(count(coll)) :
        \A i, j \in 1..count(coll) :
            i < j =>
              LET di == embedding_distance(query_text, coll.documents[p[i]])
                  dj == embedding_distance(query_text, coll.documents[p[j]])
              IN  di < dj \/ (di = dj /\ Place(coll, p[i]) < Place(coll, p[j]))}

\* collection.query(query_texts=[question], n_results=n_results): the possible
\* answers.  Chroma rejects n_results < 1 and caps n_results at count().
collection_query(coll, query_text, n_results) ==
    IF n_results < 1
    THEN {[raised |-> TRUE, ids |-> <<>>, documents |-> <<>>, metadatas |-> <<>>,
           distances |-> <<>>]}
    ELSE {[raised |-> FALSE,
           ids |-> [i \in 1..Min(n_results, count(coll)) |-> coll.ids[p[i]]],
           documents |-> [i \in 1..Min(n_results, count(coll)) |-> coll.documents[p[i]]],
           metadatas |-> [i \in 1..Min(n_results, count(coll)) |-> coll.metadatas[p[i]]],
           distances |-> [i \in 1..Min(n_results, count(coll)) |->
                            embedding_distance(query_text, coll.documents[p[i]])]]
          : p \in Rankings(coll, query_text)}

(***************************************************************************)
(* rag_system.py: BabyRAGSystem.                                           *)
(***************************************************************************)
\* An instance: how often its encoder (self.model) was loaded, its snippets and
\* whether self.collection is bound to the collection.
NewInstance == [none |-> FALSE, model_loads |-> 0, snippets |-> <<>>, collection |-> FALSE]

None == [none |-> TRUE, model_loads |-> 0, snippets |-> <<>>, collection |-> FALSE]

\* Variant of SentenceTransformer for the sensitivity of C16: the encoder is
\* not loaded by the constructor (left for the first use).
SentenceTransformer_deferred(instance) == instance

\* self.model = SentenceTransformer('all-MiniLM-L6-v2'), when it succeeds:
\* the instance has loaded an encoder once more.
SentenceTransformer(instance) == [instance EXCEPT !.model_loads = @ + 1]

\* _load_data: json.load of the data file; a missing file or invalid JSON is
\* printed and raised again.
_load_data(file) ==
    IF file.status = "ok"
    THEN [raised |-> FALSE, snippets |-> file.snippets]
    ELSE [raised |-> TRUE, snippets |-> <<>>]

\* Variant of full_text for the sensitivity of C9: the bare content.
full_text_content_only(snippet) == snippet.content

\* f"{snippet['title']}: {snippet['content']}"
full_text(snippet) == snippet.title \o ": " \o snippet.content

\* Variant of _add_snippets_to_collection for the sensitivity of C5: one
\* collection.add per snippet, so a failure leaves the earlier ones stored.
RECURSIVE add_one_by_one(_, _, _, _, _)
add_one_by_one(coll, documents, metadatas, ids, embed_ok) ==
    IF ids = <<>> THEN [raised |-> FALSE, embedded |-> TRUE, collection |-> coll]
    ELSE LET r == add(coll, <<Head(documents)>>, <<Head(metadatas)>>, <<Head(ids)>>,
                      embed_ok /\ \A i \in 1..Len(coll.ids) : coll.ids[i] # Head(ids),
                      <<1>>)
         IN  IF r.raised THEN r
             ELSE add_one_by_one(r.collection, Tail(documents), Tail(metadatas),
                                 Tail(ids), embed_ok)

_add_snippets_one_by_one(coll, snippets, embed_ok, order) ==
    add_one_by_one(coll,
        [i \in 1..Len(snippets) |-> snippets[i].title \o ": " \o snippets[i].content],
        [i \in 1..Len(snippets) |-> [title |-> snippets[i].title, id |-> snippets[i].id]],
        [i \in 1..Len(snippets) |-> str(snippets[i].id)],
        embed_ok)

\* _add_snippets_to_collection: the three lists, then one collection.add.
_add_snippets_to_collection(coll, snippets, embed_ok, order) ==
    add(coll,
        [i \in 1..Len(snippets) |-> full_text(snippets[i])],
        [i \in 1..Len(snippets) |-> [title |-> snippets[i].title, id |-> snippets[i].id]],
        [i \in 1..Len(snippets) |-> str(snippets[i].id)],
        embed_ok, order)

\* Variant of _create_collection for the sensitivity of C2: the snippets are
\* never indexed.
_create_collection_unindexed(coll, snippets, embed_ok, order) ==
    [raised |-> FALSE, collection |-> [NoCollection EXCEPT !.exists = TRUE],
     indexed |-> FALSE, embedded |-> FALSE]

\* _create_collection: get the collection or create it, and index the snippets
\* when it is empty.  indexed: whether _add_snippets_to_collection was called;
\* embedded: whether that call got as far as embedding the documents.
_create_collection(coll, snippets, embed_ok, order) ==
    LET got == IF coll.exists THEN coll ELSE [NoCollection EXCEPT !.exists = TRUE]
    IN  IF count(got) = 0
        THEN LET r == _add_snippets_to_collection(got, snippets, embed_ok, order)
             IN  [raised |-> r.raised, collection |-> r.collection, indexed |-> TRUE,
                  embedded |-> r.embedded]
        ELSE [raised |-> FALSE, collection |-> got, indexed |-> FALSE,
              embedded |-> FALSE]

\* Variant of similarity_score for the sensitivity of C6: no conversion.
similarity_score_is_distance(distance) == distance

\* similarity_score = 1 - distance
similarity_score(distance) == One - distance

\* The loop of query over range(len(results['documents'][0])).
formatted_results(results) ==
    [i \in 1..Len(results.documents) |->
        [id |-> results.ids[i],
         title |-> results.metadatas[i].title,
         content |-> results.documents[i],
         similarity_score |-> similarity_score(results.distances[i]),
         distance |-> results.distances[i]]]

EmptyResult == [id |-> "", title |-> "", content |-> "", similarity_score |-> 0,
                distance |-> One]

\* Variant of query for the sensitivity of C1: the list is filled up to
\* n_results with empty entries.
query_padding(coll, question, n_results) ==
    {[raised |-> r.raised,
      results |-> IF r.raised THEN <<>>
                  ELSE [i \in 1..n_results |->
                          IF i <= Len(r.ids) THEN formatted_results(r)[i]
                          ELSE EmptyResult],
      collection |-> coll]
     : r \in collection_query(coll, question, n_results)}

\* Variant of query for the sensitivity of C10: a call drops the oldest
\* document of the collection.
query_evicting(coll, question, n_results) ==
    {[raised |-> r.raised,
      results |-> IF r.raised THEN <<>> ELSE formatted_results(r),
      collection |-> IF r.raised THEN coll
                     ELSE [coll EXCEPT !.order = [i \in 1..(Len(coll.ids) - 1) |-> i],
                                       !.ids = SubSeq(coll.ids, 2, Len(coll.ids)),
                                       !.documents = SubSeq(coll.documents, 2, Len(coll.documents)),
                                       !.metadatas = SubSeq(coll.metadatas, 2, Len(coll.metadatas))]]
     : r \in collection_query(coll, question, n_results)}

\* query(question, n_results): the possible outcomes, each with the collection
\* as the call leaves it.  The question goes to Chroma as it is (no check of
\* the text); an exception of collection.query is not caught.
query(coll, question, n_results) ==
    {[raised |-> r.raised,
      results |-> IF r.raised THEN <<>> ELSE formatted_results(r),
      collection |-> coll]
     : r \in collection_query(coll, question, n_results)}

(***************************************************************************)
(* Requests and responses.                                                 *)
(***************************************************************************)
NoRequest == [question |-> <<>>, n_results |-> 0]

\* The outcome of a request or call: who served it, what was asked, whether it
\* succeeded, the error (HTTP status or exception) and the result list; core:
\* the arguments of the call of the core's query, when one was made.
Response(via, question, n_results, status, code, results, core) ==
    [via |-> via, question |-> question, n_results |-> n_results,
     status |-> status, code |-> code, results |-> results,
     total_results |-> Len(results), core |-> core]

NoResponse == Response("none", <<>>, 0, "none", "", <<>>, <<>>)

\* Variant of Failure for the sensitivity of C15: the error is swallowed
\* and the caller gets an empty list.
Failure_as_no_results(via, question, n_results, code) ==
    Response(via, question, n_results, "ok", "200", <<>>, <<>>)

Failure(via, question, n_results, code) ==
    Response(via, question, n_results, "error", code, <<>>, <<>>)

\* A caller that compares answers (on) keeps one of the answers it got, any
\* one, and notes whether it made a call with other arguments after that.
NoMemo == [on |-> FALSE, core |-> <<>>, results |-> <<>>, between |-> FALSE]

Remember ==
    memo' \in IF ~memo.on \/ resp'.status # "ok" THEN {memo}
              ELSE IF memo.core = <<>>
              THEN {memo, [memo EXCEPT !.core = resp'.core,
                                       !.results = resp'.results]}
              ELSE IF resp'.core # memo.core
              THEN {[memo EXCEPT !.between = TRUE]}
              ELSE {memo}

(***************************************************************************)
(* The environment.                                                        *)
(***************************************************************************)
Published == ~rag_system.none \/ ~_rag_instance.none \/ ~rag.none

\* The data file is written by somebody else.  It is read only by _load_data:
\* before the first construction it is as Init chose it, and a change matters
\* only between a construction that failed and the next one (it is taken
\* right after the failure was reported).
EditFile(file) ==
    /\ pc = "idle" /\ ~Published /\ phase = "serving"
    /\ resp.code = "Exception"
    /\ file # data_file
    /\ data_file' = file
    /\ op' = "EditFile"
    /\ UNCHANGED <<memo, transport, phase, collection, pc, self, cur, rag_system,
                   _rag_instance, rag, pending, resp, index_runs>>

\* A request reaches a server; the event loop starts its handler later.
Arrive ==
    /\ transport \in {"http", "mcp"} /\ phase # "down"
    /\ pending < MaxPending
    /\ pending' = pending + 1
    /\ op' = "Arrive"
    /\ UNCHANGED <<memo, transport, phase, data_file, collection, pc, self, cur,
                   rag_system, _rag_instance, rag, resp, index_runs>>

(***************************************************************************)
(* BabyRAGSystem.__init__, step by step.                                   *)
(***************************************************************************)
\* The call BabyRAGSystem() by one of the three programs.
Construct ==
    /\ pc = "idle" /\ Len(index_runs) < MaxIndexRuns
    /\ pc' = "model"
    /\ self' = NewInstance

\* self.model = SentenceTransformer('all-MiniLM-L6-v2'): loads, or raises.
InitModel ==
    /\ pc = "model"
    /\ \E ok \in BOOLEAN :
          IF ok
          THEN /\ self' = SentenceTransformer(self)
               /\ pc' = "load"
          ELSE /\ pc' = "raised"
               /\ self' = self
    /\ op' = "InitModel"
    /\ UNCHANGED <<memo, transport, phase, data_file, collection, cur, rag_system,
                   _rag_instance, rag, pending, resp, index_runs>>

\* self.collection = None; self.snippets = []; self._load_data()
InitLoadData ==
    /\ pc = "load"
    /\ LET r == _load_data(data_file)
       IN  /\ self' = [self EXCEPT !.snippets = r.snippets]
           /\ pc' = IF r.raised THEN "raised" ELSE "collection"
    /\ op' = "InitLoadData"
    /\ UNCHANGED <<memo, transport, phase, data_file, collection, cur, rag_system,
                   _rag_instance, rag, pending, resp, index_runs>>

\* self._create_collection(), the last statement of __init__.
InitCreateCollection ==
    /\ pc = "collection"
    /\ \E embed_ok \in BOOLEAN,
          order \in TieOrders([i \in 1..Len(self.snippets) |-> full_text(self.snippets[i])]) :
          LET r == _create_collection(collection, self.snippets, embed_ok, order)
          IN  /\ collection' = r.collection
              /\ self' = [self EXCEPT !.collection = TRUE]
              /\ index_runs' = IF ~r.indexed THEN index_runs
                                ELSE Append(index_runs,
                                            IF ~r.raised THEN "added"
                                            ELSE IF r.embedded THEN "raised"
                                            ELSE "rejected")
              /\ pc' = IF r.raised THEN "raised" ELSE "done"
    /\ op' = "InitCreateCollection"
    /\ UNCHANGED <<memo, transport, phase, data_file, cur, rag_system, _rag_instance,
                   rag, pending, resp>>

(***************************************************************************)
(* rag_api.py: the FastAPI server.                                         *)
(***************************************************************************)
\* startup_event up to the call BabyRAGSystem().
StartupEvent ==
    /\ transport = "http" /\ phase = "boot"
    /\ Construct
    /\ phase' = "starting"
    /\ op' = "StartupEvent"
    /\ UNCHANGED <<memo, transport, data_file, collection, cur, rag_system,
                   _rag_instance, rag, pending, resp, index_runs>>

\* startup_event after the constructor returned: rag_system = BabyRAGSystem().
StartupEventDone ==
    /\ transport = "http" /\ pc = "done"
    /\ rag_system' = self
    /\ phase' = "serving"
    /\ pc' = "idle"
    /\ self' = None
    /\ op' = "StartupEventDone"
    /\ UNCHANGED <<memo, transport, data_file, collection, cur, _rag_instance, rag,
                   pending, resp, index_runs>>

\* The constructor raised: the exception leaves startup_event, the assignment
\* is not reached and the application does not start.
StartupEventRaised ==
    /\ transport = "http" /\ pc = "raised"
    /\ phase' = "down"
    /\ pc' = "idle"
    /\ self' = None
    /\ pending' = 0
    /\ op' = "StartupEventRaised"
    /\ UNCHANGED <<memo, transport, data_file, collection, cur, rag_system,
                   _rag_instance, rag, resp, index_runs>>

\* The list comprehension of the /query endpoint.
formatted(results) ==
    [i \in 1..Len(results) |->
        [id |-> results[i].id,
         title |-> results[i].title,
         content |-> results[i].content,
         similarity_score |-> round(results[i].similarity_score, RoundDigits),
         distance |-> round(results[i].distance, RoundDigits)]]

\* POST /query, the whole handler.  It may run before startup_event has (an
\* application served without its startup hook): its test of rag_system
\* decides.
HttpQuery(question, n_results) ==
    /\ transport = "http" /\ phase \in {"boot", "serving"}
    /\ pc = "idle" /\ pending > 0
    /\ pending' = pending - 1
    /\ IF rag_system.none
       THEN /\ resp' = Failure("http", question, n_results, "503")
            /\ collection' = collection
       ELSE IF strip(question) = <<>>
       THEN /\ resp' = Failure("http", question, n_results, "400")
            /\ collection' = collection
       ELSE IF n_results < MinResults \/ n_results > MaxResults
       THEN /\ resp' = Failure("http", question, n_results, "400")
            /\ collection' = collection
       ELSE \E out \in query(collection, strip(question), n_results) :
              /\ collection' = out.collection
              /\ resp' = IF out.raised
                         THEN Response("http", question, n_results, "error", "500",
                                       <<>>, <<strip(question), n_results>>)
                         ELSE Response("http", question, n_results, "ok", "200",
                                       formatted(out.results),
                                       <<strip(question), n_results>>)
    /\ op' = "HttpQuery"
    /\ Remember
    /\ UNCHANGED <<transport, phase, data_file, pc, self, cur, rag_system,
                   _rag_instance, rag, index_runs>>

\* rag_system.<name> as the three endpoints below read it.  __init__ sets
\* data_path, collection_name, model, client, collection and snippets, and
\* the class defines _load_data, _create_collection,
\* _add_snippets_to_collection, query and demo_query: collection_size,
\* vector_dimensions and get_snippets are no attributes of a BabyRAGSystem
\* and reading them raises AttributeError.
getattr(instance, name) ==
    CASE name = "collection_name" -> [raised |-> FALSE, value |-> "tech_snippets"]
      [] name = "snippets" -> [raised |-> FALSE, value |-> instance.snippets]
      [] OTHER -> [raised |-> TRUE, value |-> <<>>]

\* GET /health, the whole handler: the AttributeError is caught by "except
\* Exception" and becomes status 500.
Health ==
    /\ transport = "http" /\ phase \in {"boot", "serving"}
    /\ pc = "idle" /\ pending > 0
    /\ pending' = pending - 1
    /\ resp' = IF rag_system.none
               THEN Failure("health", <<>>, 0, "503")
               ELSE LET collection_size == getattr(rag_system, "collection_size")
                    IN  IF collection_size.raised
                        THEN Failure("health", <<>>, 0, "500")
                        ELSE [Response("health", <<>>, 0, "ok", "200", <<>>, <<>>)
                                EXCEPT !.total_results = collection_size.value]
    /\ op' = "Health"
    /\ UNCHANGED <<memo, transport, phase, data_file, collection, pc, self, cur,
                   rag_system, _rag_instance, rag, index_runs>>

\* GET /collection/info, the whole handler: nothing catches the
\* AttributeError and the server answers with status 500.
CollectionInfo ==
    /\ transport = "http" /\ phase \in {"boot", "serving"}
    /\ pc = "idle" /\ pending > 0
    /\ pending' = pending - 1
    /\ resp' = IF rag_system.none
               THEN Failure("collection_info", <<>>, 0, "503")
               ELSE LET collection_name == getattr(rag_system, "collection_name")
                        total_documents == getattr(rag_system, "collection_size")
                        vector_dimensions == getattr(rag_system, "vector_dimensions")
                    IN  IF collection_name.raised \/ total_documents.raised
                           \/ vector_dimensions.raised
                        THEN Failure("collection_info", <<>>, 0, "500")
                        ELSE [Response("collection_info", <<>>, 0, "ok", "200",
                                       <<>>, <<>>)
                                EXCEPT !.total_results = total_documents.value]
    /\ op' = "CollectionInfo"
    /\ UNCHANGED <<memo, transport, phase, data_file, collection, pc, self, cur,
                   rag_system, _rag_instance, rag, index_runs>>

\* GET /collection/snippets, the whole handler: rag_system.get_snippets()
\* raises AttributeError, which nothing catches (status 500).
CollectionSnippets ==
    /\ transport = "http" /\ phase \in {"boot", "serving"}
    /\ pc = "idle" /\ pending > 0
    /\ pending' = pending - 1
    /\ resp' = IF rag_system.none
               THEN Failure("collection_snippets", <<>>, 0, "503")
               ELSE LET snippets == getattr(rag_system, "get_snippets")
                    IN  IF snippets.raised
                        THEN Failure("collection_snippets", <<>>, 0, "500")
                        ELSE Response("collection_snippets", <<>>, 0, "ok", "200",
                                      snippets.value, <<>>)
    /\ op' = "CollectionSnippets"
    /\ UNCHANGED <<memo, transport, phase, data_file, collection, pc, self, cur,
                   rag_system, _rag_instance, rag, index_runs>>

(***************************************************************************)
(* rag_mcp_server.py: the MCP server.                                      *)
(***************************************************************************)
\* The end of rag_query: rag.query(question, n_results) and the reply.
RagQueryReply(question, n_results) ==
    \E out \in query(collection, question, n_results) :
        /\ collection' = out.collection
        /\ resp' = IF out.raised
                   THEN Response("mcp", question, n_results, "error", "Exception",
                                 <<>>, <<question, n_results>>)
                   ELSE Response("mcp", question, n_results, "ok", "",
                                 out.results, <<question, n_results>>)

\* Variant of _ensure_rag_constructs for the sensitivity of C3: no test.
_ensure_rag_always_constructs(instance) == TRUE

\* _ensure_rag: "if instance is None", the test that decides whether
\* BabyRAGSystem() is called.
_ensure_rag_constructs(instance) == instance.none

\* The tool rag_query from its start: the checks, then _ensure_rag, which
\* returns the stored instance or calls BabyRAGSystem().
RagQuery(question, n_results, has_context) ==
    /\ transport = "mcp" /\ pc = "idle" /\ pending > 0
    /\ pending' = pending - 1
    /\ IF strip(question) = <<>>
          \/ ~(MinResults <= n_results /\ n_results <= MaxResults)
          \/ ~has_context
       THEN /\ resp' = Failure("mcp", question, n_results, "ValueError")
            /\ UNCHANGED <<collection, pc, self, cur>>
       ELSE IF _ensure_rag_constructs(_rag_instance)
       THEN /\ Construct
            /\ cur' = [question |-> question, n_results |-> n_results]
            /\ resp' = NoResponse
            /\ UNCHANGED collection
       ELSE /\ RagQueryReply(question, n_results)
            /\ UNCHANGED <<pc, self, cur>>
    /\ op' = "RagQuery"
    /\ Remember
    /\ UNCHANGED <<transport, phase, data_file, rag_system, _rag_instance, rag, index_runs>>

\* _ensure_rag after the constructor returned: setattr(server,
\* "_rag_instance", instance), and rag_query goes on to its end.
EnsureRagDone ==
    /\ transport = "mcp" /\ pc = "done"
    /\ _rag_instance' = self
    /\ RagQueryReply(cur.question, cur.n_results)
    /\ pc' = "idle"
    /\ self' = None
    /\ cur' = NoRequest
    /\ op' = "EnsureRagDone"
    /\ Remember
    /\ UNCHANGED <<transport, phase, data_file, rag_system, rag, pending, index_runs>>

\* The constructor raised: the exception leaves _ensure_rag and rag_query, the
\* attribute is not set.
EnsureRagRaised ==
    /\ transport = "mcp" /\ pc = "raised"
    /\ resp' = Failure("mcp", cur.question, cur.n_results, "Exception")
    /\ pc' = "idle"
    /\ self' = None
    /\ cur' = NoRequest
    /\ op' = "EnsureRagRaised"
    /\ UNCHANGED <<memo, transport, phase, data_file, collection, rag_system,
                   _rag_instance, rag, pending, index_runs>>

(***************************************************************************)
(* harness.py: a script that constructs the core and queries it.           *)
(***************************************************************************)
\* rag = BabyRAGSystem(), up to the call.
ScriptStart ==
    /\ transport = "script" /\ phase = "boot"
    /\ Construct
    /\ phase' = "starting"
    /\ op' = "ScriptStart"
    /\ UNCHANGED <<memo, transport, data_file, collection, cur, rag_system,
                   _rag_instance, rag, pending, resp, index_runs>>

ScriptConstructed ==
    /\ transport = "script" /\ pc = "done"
    /\ rag' = self
    /\ phase' = "serving"
    /\ pc' = "idle"
    /\ self' = None
    /\ op' = "ScriptConstructed"
    /\ UNCHANGED <<memo, transport, data_file, collection, cur, rag_system,
                   _rag_instance, pending, resp, index_runs>>

\* except Exception as e: print the error; the script ends.
ScriptRaised ==
    /\ transport = "script" /\ pc = "raised"
    /\ resp' = Failure("script", <<>>, 0, "Exception")
    /\ phase' = "down"
    /\ pc' = "idle"
    /\ self' = None
    /\ op' = "ScriptRaised"
    /\ UNCHANGED <<memo, transport, data_file, collection, cur, rag_system,
                   _rag_instance, rag, pending, index_runs>>

\* results = rag.query(question, n_results) inside the script's try block.
CoreQuery(question, n_results) ==
    /\ transport = "script" /\ phase = "serving" /\ pc = "idle"
    /\ ~rag.none
    /\ \E out \in query(collection, question, n_results) :
          /\ collection' = out.collection
          /\ resp' = IF out.raised
                     THEN Response("script", question, n_results, "error",
                                   "Exception", <<>>, <<question, n_results>>)
                     ELSE Response("script", question, n_results, "ok", "",
                                   out.results, <<question, n_results>>)
    /\ op' = "CoreQuery"
    /\ Remember
    /\ UNCHANGED <<transport, phase, data_file, pc, self, cur, rag_system,
                   _rag_instance, rag, pending, index_runs>>

(***************************************************************************)
(* The specification.                                                      *)
(***************************************************************************)
\* The start of a process, the collection store and the caller left open.
Start ==
    /\ transport \in {"http", "mcp", "script"}
    /\ phase = IF transport = "mcp" THEN "serving" ELSE "boot"
    /\ data_file \in DataFiles
    /\ pc = "idle"
    /\ self = None
    /\ cur = NoRequest
    /\ rag_system = None
    /\ _rag_instance = None
    /\ rag = None
    /\ pending = 0
    /\ resp = NoResponse
    /\ op = "Init"
    /\ index_runs = <<>>

\* chromadb.Client() with its default settings is in memory: no collection.
Init ==
    /\ Start
    /\ collection = NoCollection
    /\ memo = NoMemo

\* The collections an earlier construction may have left in the store the
\* client opens: the index of a corpus, or the collection without entries.
ExistingCollections ==
    UNION {{_add_snippets_to_collection([NoCollection EXCEPT !.exists = TRUE],
                                        c, TRUE, o).collection :
               o \in TieOrders([i \in 1..Len(c) |-> full_text(c[i])])} :
           c \in {d \in Corpora : Len(d) <= MaxExisting}}

\* A process that finds the collection in the store: _create_collection
\* takes its "Using existing collection" path (the store outlived an earlier
\* process, or an earlier instance of this process filled it).
InitExisting ==
    /\ Start
    /\ collection \in ExistingCollections
    /\ memo = NoMemo

\* The same process, its caller comparing the answers it gets.
InitObserved ==
    /\ Start
    /\ collection = NoCollection
    /\ memo = [NoMemo EXCEPT !.on = TRUE]

Next ==
    \/ \E file \in DataFiles : EditFile(file)
    \/ Arrive
    \/ InitModel
    \/ InitLoadData
    \/ InitCreateCollection
    \/ StartupEvent
    \/ StartupEventDone
    \/ StartupEventRaised
    \/ \E question \in Questions, n_results \in NResults :
          HttpQuery(question, n_results)
    \/ Health
    \/ CollectionInfo
    \/ CollectionSnippets
    \/ \E question \in Questions, n_results \in NResults, has_context \in BOOLEAN :
          RagQuery(question, n_results, has_context)
    \/ EnsureRagDone
    \/ EnsureRagRaised
    \/ ScriptStart
    \/ ScriptConstructed
    \/ ScriptRaised
    \/ \E question \in Questions, n_results \in NResults :
          CoreQuery(question, n_results)

Spec == Init /\ [][Next]_vars

SpecObserved == InitObserved /\ [][Next]_vars

SpecExisting == InitExisting /\ [][Next]_vars

(***************************************************************************)
(* Notions the properties use.                                             *)
(***************************************************************************)
\* The handle of the program that runs.
Instance ==
    IF transport = "http" THEN rag_system
    ELSE IF transport = "mcp" THEN _rag_instance
    ELSE rag

\* The collection holds exactly the snippets of instance h, in their order.
Indexed(h) ==
    /\ h.collection /\ collection.exists
    /\ Len(h.snippets) >= 1
    /\ count(collection) = Len(h.snippets)
    /\ \A i \in 1..Len(h.snippets) :
          /\ collection.ids[i] = str(h.snippets[i].id)
          /\ collection.documents[i]
               = h.snippets[i].title \o ": " \o h.snippets[i].content
          /\ collection.metadatas[i].title = h.snippets[i].title

\* The core's query was called in the last step, and with which arguments.
QueryOps == {"HttpQuery", "RagQuery", "EnsureRagDone", "CoreQuery"}

CoreCalled == resp.core # <<>>

CoreQuestion == resp.core[1]

CoreK == resp.core[2]

Answered == resp.status = "ok"

\* The distance between a question and snippet i of instance h.
SnippetDistance(h, question, i) ==
    embedding_distance(question, h.snippets[i].title \o ": " \o h.snippets[i].content)

\* The place of snippet i of instance h in the corpus sorted on
\* (-similarity, index), that is on (distance, index).
StableRank(h, question, i) ==
    1 + Cardinality({j \in 1..Len(h.snippets) :
            \/ SnippetDistance(h, question, j) < SnippetDistance(h, question, i)
            \/ /\ SnippetDistance(h, question, j) = SnippetDistance(h, question, i)
               /\ j < i})

(***************************************************************************)
(* C1.  A call query(text, k) with a non-empty text and k >= 1 on a ready  *)
(* instance with n snippets does not fail and returns exactly min(k, n)    *)
(* results, each of them a document of the corpus (no padding).            *)
(***************************************************************************)
C1_ResultCount ==
    (CoreCalled /\ strip(CoreQuestion) # <<>> /\ CoreK >= 1)
    => /\ Answered
       /\ Len(resp.results) = Min(CoreK, Len(Instance.snippets))
       /\ \A i \in 1..Len(resp.results) :
             \E j \in 1..Len(Instance.snippets) :
                 resp.results[i].id = str(Instance.snippets[j].id)

C1_Witness ==
    /\ CoreCalled /\ strip(CoreQuestion) # <<>>
    /\ CoreK > Len(Instance.snippets)
    /\ Answered /\ Len(resp.results) = Len(Instance.snippets)

(***************************************************************************)
(* C2.  An instance is published (Ready) only when every snippet of its    *)
(* corpus is in the collection; no result list is returned while no        *)
(* instance is published or while a constructor runs (the request waits or *)
(* fails), and a returned result list is never empty.                      *)
(***************************************************************************)
C2_ReadyBeforeAnswer ==
    /\ ~Instance.none => Indexed(Instance)
    /\ pc # "idle" => ~Answered
    /\ Answered => /\ ~Instance.none
                   /\ Indexed(Instance)
                   /\ resp.results # <<>>

\* A rag_query that found no instance waited for the construction, with
\* another request waiting behind it, and was answered.
C2_Witness ==
    /\ op = "EnsureRagDone" /\ Answered /\ pending > 0
    /\ Len(resp.results) = Len(_rag_instance.snippets)

(***************************************************************************)
(* C3, as stated.  The indexing step (embedding the corpus and adding it   *)
(* to the collection) is started at most once in a process.               *)
(***************************************************************************)
C3_IndexingStartsOnce ==
    Cardinality({i \in 1..Len(index_runs) : index_runs[i] # "rejected"}) <= 1

(***************************************************************************)
(* C3, amended.  The indexing step completes at most once in a process and *)
(* nothing is indexed after it completed; a constructor runs only while no *)
(* instance is published, so a caller that finds an instance reuses it.    *)
(***************************************************************************)
C3_IndexingCompletesOnce ==
    /\ \A i \in 1..Len(index_runs) : index_runs[i] = "added" => i = Len(index_runs)
    /\ pc # "idle" => ~Published
    /\ Published => /\ index_runs # <<>>
                    /\ index_runs[Len(index_runs)] = "added"

\* A second indexing run, started after the first one failed, completed and
\* its instance serves.
C3_Witness ==
    /\ Len(index_runs) = 2 /\ index_runs[1] = "raised" /\ index_runs[2] = "added"
    /\ ~_rag_instance.none /\ op = "RagQuery" /\ Answered

(***************************************************************************)
(* C4, as stated.  A call of the core's query with a text that is empty    *)
(* after trimming fails: it returns no result list.                        *)
(***************************************************************************)
C4_BlankQueryFails ==
    (CoreCalled /\ strip(CoreQuestion) = <<>>) => ~Answered /\ resp.results = <<>>

(***************************************************************************)
(* C5.  When the constructor raises, no handle receives an instance; a     *)
(* published instance is complete (encoder loaded, snippets loaded and all *)
(* indexed); and a collection that is not empty is the complete index of   *)
(* the snippets of the instance that filled it.                            *)
(***************************************************************************)
C5_NoPartialConstruction ==
    /\ (pc = "raised" \/ op \in {"StartupEventRaised", "EnsureRagRaised", "ScriptRaised"})
         => ~Published
    /\ ~Instance.none => Instance.model_loads >= 1 /\ Indexed(Instance)
    /\ count(collection) # 0
         => \/ pc = "done" /\ Indexed(self)
            \/ ~Instance.none /\ Indexed(Instance)

\* The constructor failed while adding the documents and the failure reached
\* the caller.
C5_Witness ==
    /\ op \in {"StartupEventRaised", "EnsureRagRaised", "ScriptRaised"}
    /\ index_runs # <<>> /\ index_runs[Len(index_runs)] # "added"
    /\ ~Published /\ count(collection) = 0

(***************************************************************************)
(* C6.  In every returned result list the similarity scores do not         *)
(* increase with the position.                                             *)
(***************************************************************************)
C6_ScoresNonIncreasing ==
    \A i, j \in 1..Len(resp.results) :
        i < j => resp.results[i].similarity_score >= resp.results[j].similarity_score

C6_Witness ==
    /\ Answered /\ Len(resp.results) >= 2
    /\ resp.results[1].similarity_score > resp.results[2].similarity_score

(***************************************************************************)
(* C7, as stated.  Among documents at equal similarity the one with the    *)
(* lower corpus index comes first and is preferred for the top k: the      *)
(* result is the corpus sorted on (-similarity, index), cut to k.          *)
(***************************************************************************)
C7_TieBreakByCorpusIndex ==
    Answered
    => \A r \in 1..Len(resp.results) :
           \E i \in 1..Len(Instance.snippets) :
               /\ StableRank(Instance, CoreQuestion, i) = r
               /\ resp.results[r].id = str(Instance.snippets[i].id)

C9_ContentIsSearchableText ==
    \A i \in 1..Len(resp.results) :
        \E j \in 1..Len(Instance.snippets) :
            /\ resp.results[i].id = str(Instance.snippets[j].id)
            /\ resp.results[i].title = Instance.snippets[j].title
            /\ resp.results[i].content
                 = Instance.snippets[j].title \o ": " \o Instance.snippets[j].content
            /\ resp.results[i].content # Instance.snippets[j].content

C9_Witness ==
    /\ Answered /\ Len(resp.results) = 2
    /\ resp.results[1].content = "DB: store"
    /\ resp.results[2].content = "ML: learn"

(***************************************************************************)
(* C11.  On an instance that serves, a call query(text, k) whose arguments *)
(* are those of an earlier answered call returns the list the earlier call *)
(* returned (same ids, order, scores), whatever was asked in between.      *)
(***************************************************************************)
C11_SameQuerySameAnswer ==
    (Answered /\ memo.core # <<>> /\ resp.core = memo.core)
    => resp.results = memo.results

\* Two documents at equal distance were returned again in the same order,
\* after a call with other arguments.
C11_Witness ==
    /\ op \in QueryOps /\ Answered
    /\ memo.between /\ resp.core = memo.core
    /\ Len(resp.results) = 2
    /\ resp.results[1].distance = resp.results[2].distance
    /\ resp.results = memo.results

(***************************************************************************)
(* C10.  A call of query, whether it returns or raises, leaves the         *)
(* collection, the instance (snippets, encoder, binding) and the record of *)
(* indexing runs as they were.                                             *)
(***************************************************************************)
C10_QueryIsPureRead ==
    [][(op' \in QueryOps /\ resp'.core # <<>>)
        => /\ collection' = collection
           /\ index_runs' = index_runs
           /\ data_file' = data_file
           /\ Instance' = IF op' = "EnsureRagDone" THEN self ELSE Instance]_vars

\* A call that raised and left the index complete.
C10_Witness ==
    /\ op = "CoreQuery" /\ CoreCalled /\ ~Answered
    /\ Indexed(rag)

(***************************************************************************)
(* C12, as stated.  A request to /query or rag_query whose question is     *)
(* empty after trimming or whose n_results is outside 1..10 is rejected    *)
(* with an error and the core's query is not called; any other request     *)
(* that is answered had the core's query called with the question and the  *)
(* n_results it came with, unchanged.                                      *)
(***************************************************************************)
C12_WrappersForwardUnchanged ==
    resp.via \in {"http", "mcp"}
    => /\ (strip(resp.question) = <<>>
            \/ resp.n_results < MinResults \/ resp.n_results > MaxResults)
          => resp.status = "error" /\ ~CoreCalled
       /\ Answered => resp.core = <<resp.question, resp.n_results>>

(***************************************************************************)
(* C13, as stated.  /health and /collection/info on a started server       *)
(* answer with the readiness and the size of the corpus (and its vector    *)
(* dimension); before the start they answer "not initialized" (503); in    *)
(* both cases they index nothing, construct nothing and leave the          *)
(* collection, the corpus and the handle as they were.                     *)
(***************************************************************************)
C13_HealthReportsCorpus ==
    [][op' \in {"Health", "CollectionInfo"}
        => /\ collection' = collection /\ index_runs' = index_runs
           /\ pc' = pc /\ rag_system' = rag_system /\ data_file' = data_file
           /\ IF rag_system.none
              THEN resp'.code = "503"
              ELSE /\ resp'.status = "ok"
                   /\ resp'.total_results = Len(rag_system.snippets)]_vars

(***************************************************************************)
(* C14, as stated.  /collection/snippets on a started server returns every *)
(* snippet of the corpus once, in the order of the corpus, its content     *)
(* replaced by title + ": " + content.                                     *)
(***************************************************************************)
C14_SnapshotIsCorpus ==
    (op = "CollectionSnippets" /\ ~rag_system.none)
    => /\ resp.status = "ok"
       /\ Len(resp.results) = Len(rag_system.snippets)
       /\ \A i \in 1..Len(resp.results) :
             /\ resp.results[i].id = rag_system.snippets[i].id
             /\ resp.results[i].title = rag_system.snippets[i].title
             /\ resp.results[i].content
                  = rag_system.snippets[i].title \o ": " \o rag_system.snippets[i].content

(***************************************************************************)
(* C15.  A request that a wrapper's validation rejects (blank question,    *)
(* n_results outside 1..10) and a call in which the core's query raises    *)
(* end as an error, with no result list; an answer with an empty list is   *)
(* given only when the core's query returned an empty list.                *)
(***************************************************************************)
C15_ErrorsAreNotEmptyAnswers ==
    /\ (/\ resp.via \in {"http", "mcp"}
        /\ \/ strip(resp.question) = <<>>
           \/ resp.n_results < MinResults \/ resp.n_results > MaxResults)
       => resp.status = "error" /\ resp.results = <<>>
    /\ (/\ op \in QueryOps /\ CoreCalled
        /\ \A out \in query(collection, CoreQuestion, CoreK) : out.raised)
       => resp.status = "error" /\ resp.results = <<>>
    /\ (op \in QueryOps /\ Answered /\ resp.results = <<>>)
       => /\ CoreCalled
          /\ \E out \in query(collection, CoreQuestion, CoreK) :
                ~out.raised /\ out.results = <<>>

\* A started server rejected a question of blanks with status 400.
C15_Witness ==
    /\ op = "HttpQuery" /\ ~rag_system.none
    /\ resp.question # <<>> /\ strip(resp.question) = <<>>
    /\ resp.n_results \in MinResults..MaxResults
    /\ resp.status = "error" /\ resp.code = "400" /\ resp.results = <<>>

(***************************************************************************)
(* C16.  An instance loads its encoder once, in its constructor, before    *)
(* anything is loaded or indexed and before it serves: every instance past *)
(* that step, every published instance and every instance that has served  *)
(* a call of query has loaded it exactly once.                             *)
(***************************************************************************)
C16_EncoderLoadedOnce ==
    /\ pc \in {"load", "collection", "done"} => self.model_loads = 1
    /\ pc = "model" => self.model_loads = 0
    /\ ~Instance.none => Instance.model_loads = 1
    /\ (op \in QueryOps /\ CoreCalled)
         => ~Instance.none /\ Instance.model_loads = 1

\* The second instance of a process (the first construction failed after
\* its encoder was loaded) serves a later call with its one encoder.
C16_Witness ==
    /\ op = "RagQuery" /\ CoreCalled /\ Answered
    /\ Len(index_runs) = 2 /\ index_runs[1] # "added"
    /\ _rag_instance.model_loads = 1

(***************************************************************************)
(* C17, as stated.  When the constructor has returned, the collection      *)
(* holds one entry per loaded snippet and nothing else: id str(id), the    *)
(* title and id as metadata, title + ": " + content as document; also when *)
(* the collection existed with entries before the constructor ran.  (Read  *)
(* for the corpora the data model allows: at least one snippet.)           *)
(***************************************************************************)
C17_IndexMatchesLoadedCorpus ==
    (pc = "done" /\ Len(self.snippets) >= 1)
    => /\ collection.exists
       /\ count(collection) = Len(self.snippets)
       /\ \A i \in 1..Len(self.snippets) :
             /\ collection.ids[i] = str(self.snippets[i].id)
             /\ collection.metadatas[i]
                  = [title |-> self.snippets[i].title, id |-> self.snippets[i].id]
             /\ collection.documents[i]
                  = self.snippets[i].title \o ": " \o self.snippets[i].content

(***************************************************************************)
(* C18.  The handle of a process (rag_system, _rag_instance, the script's  *)
(* rag) is written once: while it holds an instance it keeps that instance *)
(* and no constructor runs, so nothing could replace it; it is written     *)
(* only from unset, with the instance the constructor returned.  When the  *)
(* constructor raises the handle stays unset and the caller gets the       *)
(* error (the HTTP application does not start); a rag_query that finds the *)
(* handle unset and passes the checks calls the constructor again.         *)
(***************************************************************************)
C18_HandleWrittenOnce ==
    [][/\ ~Instance.none => Instance' = Instance /\ pc' = "idle"
       /\ op' \in {"StartupEventDone", "EnsureRagDone", "ScriptConstructed"}
            => Instance.none /\ pc = "done" /\ Instance' = self
       /\ op' \in {"StartupEventRaised", "EnsureRagRaised", "ScriptRaised"}
            => /\ Instance.none /\ Instance'.none
               /\ op' = "EnsureRagRaised"
                    => resp'.status = "error" /\ resp'.code = "Exception"
               /\ op' # "EnsureRagRaised" => phase' = "down"
       /\ (op' = "RagQuery" /\ _rag_instance.none)
            => resp'.code = "ValueError" \/ pc' = "model"]_vars

\* A rag_query failed in the constructor (Chroma refused the batch), the file
\* was corrected, and the next rag_query constructed the instance and was
\* answered by it.
C18_Witness ==
    /\ op = "EnsureRagDone" /\ Answered /\ ~_rag_instance.none
    /\ Len(index_runs) = 2
    /\ index_runs[1] = "rejected" /\ index_runs[2] = "added"

====
